---- MODULE Spec2Model ----
(***************************************************************************)
(* Model of the command dialog of the bot: InputCardBot (src/bots/         *)
(* inputBot.ts) runs InputCardDialog (src/dialogs/inputCardDialog.ts) on   *)
(* every message activity.                                                 *)
(*                                                                         *)
(* Strings.  A JavaScript string is a sequence of symbols.  Text that the  *)
(* code inspects (trim, toLowerCase, ===) is spelled character by          *)
(* character; the long literals of the replies, which the code only        *)
(* concatenates and sends, are one symbol each.  The emoji that open some  *)
(* of the literals are written as the symbols ":robot:", ":x:" and         *)
(* ":check:".                                                              *)
(*                                                                         *)
(* Values.  A JavaScript value is a tagged record: Undefined, Null,        *)
(* Str(s) or Obj(f).  Reading a property that an object does not carry     *)
(* gives Undefined, so a payload is a record over all the fields the       *)
(* handlers read and an absent field holds Undefined.                      *)
(***************************************************************************)
EXTENDS Integers, Sequences, FiniteSets, TLC

VARIABLES
    pc,                     \* position of the adapter: "idle", "onMessage", "done"
    activity,               \* the incoming activity of the current turn
    outbox,                 \* activities sent through context.sendActivity in this turn
    calls,                  \* methods entered in this turn, in order
    httpRequests,           \* HTTP requests issued in this turn
    turnStatus,             \* status of the DialogTurnResult of this turn
    dialogStack,            \* persisted DialogState per conversation
    conversationReferences, \* InputCardBot.conversationReferences
    fs,                     \* the files and directories JsonDb works on
    dbResult,               \* the JsonDb call that has just finished, with what it gave back
    lastStored,             \* per path, the value of the last store that succeeded
    seen,                   \* per conversation, the last activity the bot was handed
    shown,                  \* per conversation, the cards delivered to its chat so far
    AgentURL,               \* process.env.AgentURL
    agentRequests,          \* HTTP requests issued by the AgentService call in progress
    agentResult             \* the AgentService call that has just finished

botVars == <<pc, activity, outbox, calls, httpRequests, turnStatus, dialogStack,
             conversationReferences, seen, shown>>
dbVars == <<fs, dbResult, lastStored>>
agentVars == <<AgentURL, agentRequests, agentResult>>
vars == <<botVars, dbVars, agentVars>>

----------------------------------------------------------------------------
(* Bounds *)

\* longest run of whitespace put before and after a typed text
MaxPad == 1

----------------------------------------------------------------------------
(* JavaScript values *)

Undefined == [t |-> "undefined"]
Null == [t |-> "null"]
Str(s) == [t |-> "string", s |-> s]
Obj(f) == [t |-> "object", f |-> f]

\* ToBoolean: undefined, null and '' are falsy; other strings and every object are truthy
Truthy(v) ==
    CASE v.t = "undefined" -> FALSE
      [] v.t = "null" -> FALSE
      [] v.t = "string" -> Len(v.s) > 0
      [] v.t = "object" -> TRUE

\* string conversion of a template literal `${v}`
TemplateString(v) ==
    CASE v.t = "undefined" -> <<"undefined">>
      [] v.t = "null" -> <<"null">>
      [] v.t = "string" -> v.s
      [] v.t = "object" -> <<"[object Object]">>

UpperCase == <<"A","B","C","D","E","F","G","H","I","J","K","L","M",
               "N","O","P","Q","R","S","T","U","V","W","X","Y","Z">>
LowerCase == <<"a","b","c","d","e","f","g","h","i","j","k","l","m",
               "n","o","p","q","r","s","t","u","v","w","x","y","z">>

\* the characters String.prototype.trim removes (those of them the model types)
WhiteSpace == {" ", "\t", "\n", "\r", "\f"}

LowerChar(c) ==
    IF \E i \in 1..Len(UpperCase) : UpperCase[i] = c
    THEN LowerCase[CHOOSE i \in 1..Len(UpperCase) : UpperCase[i] = c]
    ELSE c

\* a toLowerCase that leaves the text as typed
toLowerCaseKeepsCase(s) == s

\* String.prototype.toLowerCase
toLowerCase(s) == [i \in 1..Len(s) |-> LowerChar(s[i])]

RECURSIVE trimStart(_)
trimStart(s) ==
    IF s # <<>> /\ Head(s) \in WhiteSpace THEN trimStart(Tail(s)) ELSE s

RECURSIVE trimEnd(_)
trimEnd(s) ==
    IF s # <<>> /\ s[Len(s)] \in WhiteSpace
    THEN trimEnd(SubSeq(s, 1, Len(s) - 1))
    ELSE s

\* a trim that removes the whitespace inside the text as well
trimEverywhere(s) == SelectSeq(s, LAMBDA c : c \notin WhiteSpace)

\* String.prototype.trim
trim(s) == trimEnd(trimStart(s))

----------------------------------------------------------------------------
(* Literals of inputCardDialog.ts *)

MAIN_WATERFALL_DIALOG == "mainWaterfallDialog"
InputCardDialogId == "InputCardDialog"

help == <<"h","e","l","p">>
configure == <<"c","o","n","f","i","g","u","r","e">>
prompt == <<"p","r","o","m","p","t">>
cancel == <<"c","a","n","c","e","l">>

jiraInformation == <<"j","i","r","a","I","n","f","o","r","m","a","t","i","o","n">>
cancelNotification == <<"c","a","n","c","e","l","N","o","t","i","f","i","c","a","t","i","o","n">>
yes == <<"y","e","s">>
no == <<"n","o">>

ThankYou == <<"Thank you for your submission!">>
RequiredFieldsError ==
    <<":x:", " Please fill in all required fields (Sprint ID and Board ID).">>
\* a success message that echoes the two ids in each other's place
NotificationCreatedSwapped(sprintId, boardId) ==
    <<":check:", " **Notification Created Successfully!**\n\n", "**Sprint ID:** ">>
    \o TemplateString(boardId) \o <<"\n", "**Board ID:** ">> \o TemplateString(sprintId) \o <<"\n">>

NotificationCreated(sprintId, boardId) ==
    <<":check:", " **Notification Created Successfully!**\n\n", "**Sprint ID:** ">>
    \o TemplateString(sprintId) \o <<"\n", "**Board ID:** ">> \o TemplateString(boardId) \o <<"\n">>
PromptSent == <<":check:", " **Prompt Sent To Agent Successfully!**\n\n">>
CancelConfirmed == <<":check:", " Notification successfully cancelled.">>
NotCancelled == <<"Notification has not been cancelled.">>
helpMessage ==
    <<":robot:", " **Available Commands:**\n\n",
      "* **Configure** - To setup a notification schedule.\n\n",
      "* **Prompt** - To make the agent execute a prompt of your choice.\n\n",
      "* **Cancel** - To cancel a notification schedule.\n\n",
      "Type any command to see the interactive card!">>

\* the three adaptive cards: title, input fields and the one submit action
JiraInformationCard ==
    [type |-> "AdaptiveCard",
     title |-> "Configure Jira Notification Form",
     inputs |-> <<[id |-> "sprintId", isRequired |-> TRUE, choices |-> <<>>],
                  [id |-> "boardId", isRequired |-> TRUE, choices |-> <<>>],
                  [id |-> "sprintKey", isRequired |-> FALSE, choices |-> <<>>],
                  [id |-> "sprintName", isRequired |-> FALSE, choices |-> <<>>]>>,
     actions |-> <<[type |-> "Action.Submit", title |-> "Schedule Notification",
                    data |-> [type |-> jiraInformation]]>>]

\* a cancel card whose submit action carries the word of the command as its type
CancelNotificationCardMistyped ==
    [type |-> "AdaptiveCard",
     title |-> "Cancel Jira Notification",
     inputs |-> <<[id |-> "choice", isRequired |-> TRUE, choices |-> <<yes, no>>]>>,
     actions |-> <<[type |-> "Action.Submit", title |-> "Submit Choice",
                    data |-> [type |-> cancel]]>>]

CancelNotificationCard ==
    [type |-> "AdaptiveCard",
     title |-> "Cancel Jira Notification",
     inputs |-> <<[id |-> "choice", isRequired |-> TRUE, choices |-> <<yes, no>>]>>,
     actions |-> <<[type |-> "Action.Submit", title |-> "Submit Choice",
                    data |-> [type |-> cancelNotification]]>>]

PromptToAgentCard ==
    [type |-> "AdaptiveCard",
     title |-> "Send Prompt To the Agent",
     inputs |-> <<[id |-> "prompt", isRequired |-> TRUE, choices |-> <<>>]>>,
     actions |-> <<[type |-> "Action.Submit", title |-> "Submit Prompt",
                    data |-> [type |-> prompt]]>>]

----------------------------------------------------------------------------
(* Outgoing activities and the turn context *)

\* the activity context.sendActivity(text) sends
TextActivity(s) == [type |-> "message", text |-> Str(s), attachments |-> <<>>]

\* MessageFactory.attachment(CardFactory.adaptiveCard(card))
CardActivity(card) == [type |-> "message", text |-> Undefined, attachments |-> <<card>>]

\* the context of a turn: what came in, and what the turn has done so far
NewContext(a) == [activity |-> a, sent |-> <<>>, calls |-> <<>>, requests |-> <<>>]

Enter(ctx, name) == [ctx EXCEPT !.calls = Append(@, name)]

sendActivity(ctx, a) == [ctx EXCEPT !.sent = Append(@, a)]

----------------------------------------------------------------------------
(* InputCardDialog: the handlers of card submissions (lines 227-287) *)

\* data.<name>: a property read; a value that is no object carries none of the fields
Prop(v, name) == IF v.t = "object" THEN v.f[name] ELSE Undefined

\* a validation that reports the missing field and goes on (no return)
handleJiraInformationSubmissionNoReturn(ctx, data) ==
    LET c == Enter(ctx, "handleJiraInformationSubmission")
        sprintId == Prop(data, "sprintId")
        boardId == Prop(data, "boardId")
        checked == IF ~Truthy(sprintId) \/ ~Truthy(boardId)
                   THEN sendActivity(c, TextActivity(RequiredFieldsError))
                   ELSE c
    IN  sendActivity(checked, TextActivity(NotificationCreated(sprintId, boardId)))

\* a validation that rejects only when both required fields are missing
handleJiraInformationSubmissionBothMissing(ctx, data) ==
    LET c == Enter(ctx, "handleJiraInformationSubmission")
        sprintId == Prop(data, "sprintId")
        boardId == Prop(data, "boardId")
    IN  IF ~Truthy(sprintId) /\ ~Truthy(boardId)
        THEN sendActivity(c, TextActivity(RequiredFieldsError))
        ELSE sendActivity(c, TextActivity(NotificationCreated(sprintId, boardId)))

handleJiraInformationSubmission(ctx, data) ==
    LET c == Enter(ctx, "handleJiraInformationSubmission")
        sprintId == Prop(data, "sprintId")
        boardId == Prop(data, "boardId")
    IN  IF ~Truthy(sprintId) \/ ~Truthy(boardId)
        THEN sendActivity(c, TextActivity(RequiredFieldsError))
        ELSE sendActivity(c, TextActivity(NotificationCreated(sprintId, boardId)))

\* a prompt handler that forwards the prompt to the agent
handlePromptSubmissionForwards(ctx, data) ==
    LET c == Enter(Enter(ctx, "handlePromptSubmission"), "AgentService.sendMessage")
        sent == [c EXCEPT !.requests =
                    Append(@, [method |-> "GET", url |-> "/message",
                               data |-> Prop(data, "prompt")])]
    IN  sendActivity(sent, TextActivity(PromptSent))

handlePromptSubmission(ctx, data) ==
    LET c == Enter(ctx, "handlePromptSubmission")
    IN  sendActivity(c, TextActivity(PromptSent))

\* a cancel handler that takes every choice other than 'yes' for a 'no'
handleCancelNotificationSubmissionDefaultsToNo(ctx, data) ==
    LET c == Enter(ctx, "handleCancelNotificationSubmission")
        choice == Prop(data, "choice")
        response ==
            IF choice = Str(yes) THEN CancelConfirmed
            ELSE NotCancelled
    IN  sendActivity(c, TextActivity(response))

\* a cancel handler with the two answers in each other's place
handleCancelNotificationSubmissionSwapped(ctx, data) ==
    LET c == Enter(ctx, "handleCancelNotificationSubmission")
        choice == Prop(data, "choice")
        response ==
            IF choice = Str(yes) THEN NotCancelled
            ELSE IF choice = Str(no) THEN CancelConfirmed
            ELSE <<>>
    IN  sendActivity(c, TextActivity(response))

handleCancelNotificationSubmission(ctx, data) ==
    LET c == Enter(ctx, "handleCancelNotificationSubmission")
        choice == Prop(data, "choice")
        response ==
            IF choice = Str(yes) THEN CancelConfirmed
            ELSE IF choice = Str(no) THEN NotCancelled
            ELSE <<>>
    IN  sendActivity(c, TextActivity(response))

\* a dispatch whose switch has no default case
handleCardSubmissionNoDefault(ctx) ==
    LET c == Enter(ctx, "handleCardSubmission")
        submissionData == c.activity.value
        submissionType == Prop(submissionData, "type")
    IN  CASE submissionType = Str(jiraInformation) ->
                handleJiraInformationSubmission(c, submissionData)
          [] submissionType = Str(cancelNotification) ->
                handleCancelNotificationSubmission(c, submissionData)
          [] submissionType = Str(prompt) ->
                handlePromptSubmission(c, submissionData)
          [] OTHER -> c

handleCardSubmission(ctx) ==
    LET c == Enter(ctx, "handleCardSubmission")
        submissionData == c.activity.value
        submissionType == Prop(submissionData, "type")
    IN  CASE submissionType = Str(jiraInformation) ->
                handleJiraInformationSubmission(c, submissionData)
          [] submissionType = Str(cancelNotification) ->
                handleCancelNotificationSubmission(c, submissionData)
          [] submissionType = Str(prompt) ->
                handlePromptSubmission(c, submissionData)
          [] OTHER -> sendActivity(c, TextActivity(ThankYou))

sendCommandList(ctx) ==
    sendActivity(Enter(ctx, "sendCommandList"), TextActivity(helpMessage))

sendJiraInformationCard(ctx) ==
    sendActivity(Enter(ctx, "sendJiraInformationCard"), CardActivity(JiraInformationCard))

sendCancelNotificationCard(ctx) ==
    sendActivity(Enter(ctx, "sendCancelNotificationCard"),
                 CardActivity(CancelNotificationCard))

sendPromptToAgentCard(ctx) ==
    sendActivity(Enter(ctx, "sendPromptToAgentCard"), CardActivity(PromptToAgentCard))

----------------------------------------------------------------------------
(* InputCardDialog: the waterfall step and the dialog stack (lines 18-78) *)

\* a step that returns Dialog.EndOfTurn: the dialog stays on the stack and waits
endDialogWaits(stack) == [stack |-> stack, status |-> "waiting"]

\* stepContext.endDialog(): the active dialog leaves the stack, the turn result is complete
endDialog(stack) ==
    [stack |-> SubSeq(stack, 1, Len(stack) - 1), status |-> "complete"]

\* context.activity.text?.toLowerCase().trim()
userMessageOf(text) ==
    IF text.t \in {"undefined", "null"} THEN Undefined
    ELSE Str(trim(toLowerCase(text.s)))

\* a step that looks at the text first and at the payload last
processUserInputStepTextFirst(ctx, stack) ==
    LET c == Enter(ctx, "processUserInputStep")
        userMessage == userMessageOf(c.activity.text)
        after ==
            IF userMessage = Str(help) THEN sendCommandList(c)
            ELSE IF userMessage = Str(configure) THEN sendJiraInformationCard(c)
            ELSE IF userMessage = Str(prompt) THEN sendPromptToAgentCard(c)
            ELSE IF userMessage = Str(cancel) THEN sendCancelNotificationCard(c)
            ELSE IF Truthy(c.activity.value) THEN handleCardSubmission(c)
            ELSE sendCommandList(c)
        ended == endDialog(stack)
    IN  [ctx |-> after, stack |-> ended.stack, status |-> ended.status]

\* a step that, once it has sent a card, waits for the submission (Dialog.EndOfTurn)
processUserInputStepWaitsForCard(ctx, stack) ==
    LET c == Enter(ctx, "processUserInputStep")
        userMessage == userMessageOf(c.activity.text)
        after ==
            IF Truthy(c.activity.value) THEN handleCardSubmission(c)
            ELSE IF userMessage = Str(help) THEN sendCommandList(c)
            ELSE IF userMessage = Str(configure) THEN sendJiraInformationCard(c)
            ELSE IF userMessage = Str(prompt) THEN sendPromptToAgentCard(c)
            ELSE IF userMessage = Str(cancel) THEN sendCancelNotificationCard(c)
            ELSE sendCommandList(c)
        ended == IF \E i \in DOMAIN after.sent : after.sent[i].attachments # <<>>
                 THEN endDialogWaits(stack)
                 ELSE endDialog(stack)
    IN  [ctx |-> after, stack |-> ended.stack, status |-> ended.status]

processUserInputStep(ctx, stack) ==
    LET c == Enter(ctx, "processUserInputStep")
        userMessage == userMessageOf(c.activity.text)
        after ==
            IF Truthy(c.activity.value) THEN handleCardSubmission(c)
            ELSE IF userMessage = Str(help) THEN sendCommandList(c)
            ELSE IF userMessage = Str(configure) THEN sendJiraInformationCard(c)
            ELSE IF userMessage = Str(prompt) THEN sendPromptToAgentCard(c)
            ELSE IF userMessage = Str(cancel) THEN sendCancelNotificationCard(c)
            ELSE sendCommandList(c)
        ended == endDialog(stack)
    IN  [ctx |-> after, stack |-> ended.stack, status |-> ended.status]

\* the steps given to the WaterfallDialog in the constructor
WaterfallSteps == <<"processUserInputStep">>

\* WaterfallDialog runs step number index, or ends when the steps are used up
runStep(ctx, stack, index) ==
    IF index <= Len(WaterfallSteps)
    THEN processUserInputStep(
            ctx, [stack EXCEPT ![Len(stack)] = [@ EXCEPT !.stepIndex = index]])
    ELSE LET ended == endDialog(stack)
         IN  [ctx |-> ctx, stack |-> ended.stack, status |-> ended.status]

\* a component that stays on the stack when its inner dialog has ended
componentResultStays(outer, r) ==
    [ctx |-> r.ctx,
     stack |-> [outer EXCEPT ![Len(outer)] = [@ EXCEPT !.inner = r.stack]],
     status |-> r.status]

\* the component closes once its inner dialog is no longer waiting
componentResult(outer, r) ==
    IF r.status = "waiting"
    THEN [ctx |-> r.ctx,
          stack |-> [outer EXCEPT ![Len(outer)] = [@ EXCEPT !.inner = r.stack]],
          status |-> "waiting"]
    ELSE [ctx |-> r.ctx, stack |-> endDialog(outer).stack, status |-> "complete"]

\* dialogContext.beginDialog(this.id): the component starts its initial dialog at step 1
beginDialog(ctx, stack) ==
    LET c == Enter(ctx, "beginDialog")
        outer == Append(stack, [id |-> InputCardDialogId, inner |-> <<>>])
        inner == <<[id |-> MAIN_WATERFALL_DIALOG, stepIndex |-> 1]>>
    IN  componentResult(outer, runStep(c, inner, 1))

\* dialogContext.continueDialog(): empty on an empty stack, else the waterfall resumes
continueDialog(ctx, stack) ==
    LET c == Enter(ctx, "continueDialog")
    IN  IF stack = <<>>
        THEN [ctx |-> c, stack |-> stack, status |-> "empty"]
        ELSE LET inner == stack[Len(stack)].inner
             IN  componentResult(stack, runStep(c, inner, inner[Len(inner)].stepIndex + 1))

\* InputCardDialog.run
run(ctx, stack) ==
    LET results == continueDialog(Enter(ctx, "run"), stack)
    IN  IF results.status = "empty"
        THEN beginDialog(results.ctx, results.stack)
        ELSE results

----------------------------------------------------------------------------
(* InputCardBot (src/bots/inputBot.ts) *)

\* TurnContext.getConversationReference(activity)
getConversationReference(a) == [activityId |-> a.id, conversation |-> a.conversation]

\* a registry that keeps the first reference of a conversation
addConversationReferenceKeepsFirst(refs, a) ==
    LET ref == getConversationReference(a)
    IN  [c \in DOMAIN refs \cup {ref.conversation} |->
            IF c \in DOMAIN refs THEN refs[c] ELSE ref]

\* this.conversationReferences[conversationReference.conversation.id] = conversationReference
addConversationReference(refs, a) ==
    LET ref == getConversationReference(a)
    IN  [c \in DOMAIN refs \cup {ref.conversation} |->
            IF c = ref.conversation THEN ref ELSE refs[c]]

----------------------------------------------------------------------------
(* The activities the model sends to the bot *)

ConversationIds == {"conv1", "conv2"}
ActivityIds == {"act1", "act2"}

PadChars == {" ", "\t"}
Pads == UNION {[1..n -> PadChars] : n \in 0..MaxPad}

UpperChar(c) ==
    IF \E i \in 1..Len(LowerCase) : LowerCase[i] = c
    THEN UpperCase[CHOOSE i \in 1..Len(LowerCase) : LowerCase[i] = c]
    ELSE c

\* the word w with the letters at the positions of S in upper case
Cased(w, S) == [i \in 1..Len(w) |-> IF i \in S THEN UpperChar(w[i]) ELSE w[i]]

CaseMasks(w) == {{}, 1..Len(w), {1}, {i \in 1..Len(w) : i % 2 = 0}}

Commands == {help, configure, prompt, cancel}

OtherTexts ==
    {<<>>,
     <<"c","o","n","f","i","g","u","r","e"," ","n","o","w">>,
     <<"h","e","l","p","s">>,
     <<"h","e","l">>,
     <<"c","a","n"," ","c","e","l">>,
     <<"r","a","n","d","o","m"," ","t","e","x","t">>}

TypedTexts ==
    {l \o core \o r :
        l \in Pads, r \in Pads,
        core \in {Cased(w, S) : <<w, S>> \in
                    UNION {{<<w, S>> : S \in CaseMasks(w)} : w \in Commands}}
                 \cup OtherTexts}

Texts == {Undefined, Null} \cup {Str(t) : t \in TypedTexts}

Payload(type, sprintId, boardId, sprintName, sprintKey, choice, promptText) ==
    Obj([type |-> type, sprintId |-> sprintId, boardId |-> boardId,
         sprintName |-> sprintName, sprintKey |-> sprintKey,
         choice |-> choice, prompt |-> promptText])

SprintIdValues ==
    {Undefined, Null, Str(<<>>), Str(<<" ">>), Str(<<" ","S","1">>),
     Str(<<"S","P","R","I","N","T","-","1","2","3">>)}
BoardIdValues ==
    {Undefined, Null, Str(<<>>), Str(<<"\t"," ">>), Str(<<"B","O","A","R","D","-","4","5","6">>)}
SprintNameValues == {Undefined, Str(<<"T","e","s","t"," ","S","p","r","i","n","t">>)}
SprintKeyValues == {Undefined, Str(<<"T","S">>)}
ChoiceValues == {Undefined, Str(yes), Str(no), Str(<<"Y","e","s">>), Str(<<"m","a","y","b","e">>)}
PromptValues == {Undefined, Str(<<>>), Str(<<"r","u","n"," ","i","t">>)}
OtherTypes ==
    {Undefined, Null, Str(<<"u","n","k","n","o","w","n","T","y","p","e">>),
     Str(Cased(jiraInformation, {1})), Str(prompt \o <<" ">>)}

Payloads ==
    {Payload(Str(jiraInformation), s, b, n, k, Undefined, Undefined) :
        s \in SprintIdValues, b \in BoardIdValues,
        n \in SprintNameValues, k \in SprintKeyValues}
    \cup {Payload(Str(cancelNotification), Undefined, Undefined, Undefined, Undefined,
                  c, Undefined) : c \in ChoiceValues}
    \cup {Payload(Str(prompt), Undefined, Undefined, Undefined, Undefined, Undefined, p) :
            p \in PromptValues}
    \cup {Payload(t, Undefined, Undefined, Undefined, Undefined, Undefined, Undefined) :
            t \in OtherTypes}

\* the texts that come along with a submission payload
PayloadTexts == {Undefined} \cup {Str(w) : w \in Commands}

Activity(id, conversation, text, value) ==
    [type |-> "message", id |-> id, conversation |-> conversation,
     text |-> text, value |-> value]

MessageActivities ==
    {Activity(i, c, t, v) :
        i \in ActivityIds, c \in ConversationIds, t \in Texts, v \in {Undefined, Null}}
    \cup {Activity(i, c, t, v) :
        i \in ActivityIds, c \in ConversationIds, t \in PayloadTexts, v \in Payloads}

\* the fields a submission payload can carry
PayloadFields == {"type", "sprintId", "boardId", "sprintName", "sprintKey", "choice", "prompt"}

\* what a user can leave in an input of a card: nothing, an empty text, a text, or
\* one of the choices the input offers
InputEntries(input) ==
    IF input.choices # <<>>
    THEN {Undefined} \cup {Str(input.choices[i]) : i \in DOMAIN input.choices}
    ELSE {Undefined, Str(<<>>), Str(<<"4","2">>)}

\* the ways to fill in the inputs of a card
EntriesOf(card) ==
    LET ids == {card.inputs[i].id : i \in DOMAIN card.inputs}
        inputOf(id) == card.inputs[CHOOSE i \in DOMAIN card.inputs : card.inputs[i].id = id]
        all == UNION {InputEntries(card.inputs[i]) : i \in DOMAIN card.inputs}
    IN  {e \in [ids -> all] : \A id \in ids : e[id] \in InputEntries(inputOf(id))}

\* Action.Submit: the client sends the data of the action together with the entries
\* of the inputs, each under the id of its input
SubmissionOf(card, entries) ==
    LET data == card.actions[1].data
    IN  Obj([k \in PayloadFields |->
                IF k \in DOMAIN data THEN Str(data[k])
                ELSE IF k \in DOMAIN entries THEN entries[k]
                ELSE Undefined])

SubmissionsOf(card) == {SubmissionOf(card, e) : e \in EntriesOf(card)}

CardTemplates == {JiraInformationCard, CancelNotificationCard, PromptToAgentCard}

\* what a chat client sends: the commands as typed, and submissions of the cards
ClientTexts == {Str(w) : w \in Commands} \cup {Str(<<"h","i">>)}

ClientActivities ==
    {Activity("act1", c, t, Undefined) : c \in ConversationIds, t \in ClientTexts}
    \cup {Activity("act1", c, Undefined, v) :
            c \in ConversationIds, v \in UNION {SubmissionsOf(card) : card \in CardTemplates}}

\* a conversation update: members added to or removed from the conversation
ConversationUpdate(id, conversation) ==
    [type |-> "conversationUpdate", id |-> id, conversation |-> conversation,
     text |-> Undefined, value |-> Undefined]

ConversationUpdates ==
    {ConversationUpdate(i, c) : i \in ActivityIds, c \in ConversationIds}

NoActivity == [type |-> "none"]

\* a conversation the bot has had no activity from
NotSeen == "none"

----------------------------------------------------------------------------
(* JsonDb (inputCardDialog.ts, lines 289-351): values, JSON text and files *)

\* longest array among the stored values
MaxItems == 2

\* indent = 2 in the destructuring of the options of store
DefaultIndent == 2

Num(n) == [t |-> "number", n |-> n]
Bool(b) == [t |-> "boolean", b |-> b]
Arr(items) == [t |-> "array", items |-> items]

\* the property names of the stored objects, in the order the objects list them
ObjectKeys == <<"id", "meta", "tags">>

\* the text of a file is a sequence of tokens: punctuation, literals and whitespace
Punct(c) == [t |-> "punct", c |-> c]
Lit(v) == [t |-> "lit", v |-> v]
NewLine(n) == [t |-> "nl", n |-> n]
Space == [t |-> "sp"]

IsWhitespaceToken(tok) == tok.t \in {"nl", "sp"}

\* JSON.stringify clamps the indentation to ten characters
Gap(indent) == IF indent > 10 THEN 10 ELSE IF indent < 0 THEN 0 ELSE indent

\* the line break and indentation JSON.stringify puts before an item at this depth
Break(indent, depth) ==
    IF Gap(indent) = 0 THEN <<>> ELSE <<NewLine(Gap(indent) * depth)>>

\* the property names of an object that JSON.stringify writes: those not undefined
WrittenKeys(f) ==
    SelectSeq(ObjectKeys, LAMBDA k : k \in DOMAIN f /\ f[k] # Undefined)

RECURSIVE Serialize(_, _, _)
RECURSIVE SerializeItems(_, _, _, _)
RECURSIVE SerializeMembers(_, _, _, _, _)

\* the items of an array from position i on; undefined is written as null
SerializeItems(items, i, indent, depth) ==
    IF i > Len(items) THEN <<>>
    ELSE (IF i > 1 THEN <<Punct(",")>> ELSE <<>>)
         \o Break(indent, depth)
         \o (IF items[i] = Undefined THEN <<Lit(Null)>>
             ELSE Serialize(items[i], indent, depth))
         \o SerializeItems(items, i + 1, indent, depth)

\* the members of an object from the i-th written key on
SerializeMembers(f, keys, i, indent, depth) ==
    IF i > Len(keys) THEN <<>>
    ELSE (IF i > 1 THEN <<Punct(",")>> ELSE <<>>)
         \o Break(indent, depth)
         \o <<Lit(Str(<<keys[i]>>)), Punct(":")>>
         \o (IF Gap(indent) = 0 THEN <<>> ELSE <<Space>>)
         \o Serialize(f[keys[i]], indent, depth)
         \o SerializeMembers(f, keys, i + 1, indent, depth)

\* the text of a value that is not undefined
Serialize(v, indent, depth) ==
    CASE v.t = "array" ->
            IF v.items = <<>> THEN <<Punct("["), Punct("]")>>
            ELSE <<Punct("[")>> \o SerializeItems(v.items, 1, indent, depth + 1)
                 \o Break(indent, depth) \o <<Punct("]")>>
      [] v.t = "object" ->
            IF WrittenKeys(v.f) = <<>> THEN <<Punct("{"), Punct("}")>>
            ELSE <<Punct("{")>>
                 \o SerializeMembers(v.f, WrittenKeys(v.f), 1, indent, depth + 1)
                 \o Break(indent, depth) \o <<Punct("}")>>
      [] OTHER -> <<Lit(v)>>

\* JSON.stringify(data, null, indent): undefined for undefined, else the text
JSONstringify(data, indent) ==
    IF data = Undefined THEN Undefined ELSE Str(Serialize(data, indent, 0))

RECURSIVE SkipWhitespace(_)
SkipWhitespace(ts) ==
    IF ts # <<>> /\ IsWhitespaceToken(Head(ts)) THEN SkipWhitespace(Tail(ts)) ELSE ts

ParseFailure == [ok |-> FALSE]
Parsed(v, rest) == [ok |-> TRUE, v |-> v, rest |-> rest]

IsPunct(ts, c) == ts # <<>> /\ Head(ts) = Punct(c)

RECURSIVE ParseValue(_)
RECURSIVE ParseElements(_, _)
RECURSIVE ParseMembers(_, _)

\* the elements of an array after '[' or ','; acc holds the elements read so far
ParseElements(ts, acc) ==
    LET r == ParseValue(SkipWhitespace(ts))
    IN  IF ~r.ok THEN ParseFailure
        ELSE LET rest == SkipWhitespace(r.rest)
                 items == Append(acc, r.v)
             IN  IF IsPunct(rest, ",") THEN ParseElements(Tail(rest), items)
                 ELSE IF IsPunct(rest, "]") THEN Parsed(Arr(items), Tail(rest))
                 ELSE ParseFailure

\* the members of an object after '{' or ','; acc holds the members read so far
ParseMembers(ts, acc) ==
    LET key == SkipWhitespace(ts)
    IN  IF key = <<>> \/ Head(key).t # "lit" THEN ParseFailure
        ELSE IF Head(key).v.t # "string" \/ Len(Head(key).v.s) # 1 THEN ParseFailure
        ELSE LET colon == SkipWhitespace(Tail(key))
             IN  IF ~IsPunct(colon, ":") THEN ParseFailure
                 ELSE LET r == ParseValue(SkipWhitespace(Tail(colon)))
                      IN  IF ~r.ok THEN ParseFailure
                          ELSE LET rest == SkipWhitespace(r.rest)
                                   f == (Head(key).v.s[1] :> r.v) @@ acc
                               IN  IF IsPunct(rest, ",") THEN ParseMembers(Tail(rest), f)
                                   ELSE IF IsPunct(rest, "}")
                                        THEN Parsed(Obj(f), Tail(rest))
                                   ELSE ParseFailure

\* one JSON value at the head of the tokens
ParseValue(ts) ==
    IF ts = <<>> THEN ParseFailure
    ELSE LET tok == Head(ts)
         IN  CASE tok.t = "lit" -> Parsed(tok.v, Tail(ts))
               [] tok = Punct("[") ->
                    IF IsPunct(SkipWhitespace(Tail(ts)), "]")
                    THEN Parsed(Arr(<<>>), Tail(SkipWhitespace(Tail(ts))))
                    ELSE ParseElements(Tail(ts), <<>>)
               [] tok = Punct("{") ->
                    IF IsPunct(SkipWhitespace(Tail(ts)), "}")
                    THEN Parsed(Obj(<<>>), Tail(SkipWhitespace(Tail(ts))))
                    ELSE ParseMembers(Tail(ts), <<>>)
               [] OTHER -> ParseFailure

\* what a call gives back: a returned value or a thrown error
Returned(v) == [threw |-> FALSE, value |-> v]
Threw(e) == [threw |-> TRUE, error |-> e]

SyntaxError == [name |-> "SyntaxError", code |-> "", message |-> <<"Unexpected token in JSON">>]

\* JSON.parse(text): the value, or a SyntaxError unless the text is exactly one value
JSONparse(text) ==
    LET r == ParseValue(SkipWhitespace(text))
    IN  IF r.ok /\ SkipWhitespace(r.rest) = <<>> THEN Returned(r.v) ELSE Threw(SyntaxError)

----------------------------------------------------------------------------
(* JsonDb: the file system under the fs calls *)

\* a path is the sequence of its names; <<>> is the working directory
DbPaths ==
    {<<"data">>,
     <<"data", "db.json">>,
     <<"data", "db.json", "x.json">>,
     <<"app", "store", "users.json">>}

\* every path the calls can touch: the paths above and the directories on the way
FsPaths == {SubSeq(p, 1, n) : <<p, n>> \in UNION {{<<p, n>> : n \in 1..Len(p)} : p \in DbPaths}}

NoNode == [kind |-> "none"]
Dir == [kind |-> "dir"]
File(content) == [kind |-> "file", content |-> content]

\* what is at a path; the working directory always exists
NodeAt(files, p) == IF p = <<>> THEN Dir ELSE files[p]

\* path.dirname(filePath)
dirname(p) == SubSeq(p, 1, Len(p) - 1)

RECURSIVE PathString(_)
\* the path as it is written in a message
PathString(p) ==
    IF p = <<>> THEN <<".">>
    ELSE IF Len(p) = 1 THEN <<p[1]>>
    ELSE PathString(dirname(p)) \o <<"/", p[Len(p)]>>

ErrorText(code) ==
    CASE code = "ENOENT" -> "ENOENT: no such file or directory, "
      [] code = "ENOTDIR" -> "ENOTDIR: not a directory, "
      [] code = "EISDIR" -> "EISDIR: illegal operation on a directory, "
      [] code = "EEXIST" -> "EEXIST: file already exists, "

\* the error a failed system call throws
SystemError(code, syscall, p) ==
    [name |-> "Error", code |-> code,
     message |-> <<ErrorText(code), syscall, " '">> \o PathString(p) \o <<"'">>]

\* the TypeError of writeFileSync for data that is no string
InvalidArgType ==
    [name |-> "TypeError", code |-> "ERR_INVALID_ARG_TYPE",
     message |-> <<"The \"data\" argument must be of type string or an instance of Buffer">>]

\* the error code of the first directory on the way to p that is missing or a file
LookupError(files, p) ==
    IF \E n \in 1..(Len(p) - 1) : NodeAt(files, SubSeq(p, 1, n)).kind # "dir"
    THEN LET n == CHOOSE m \in 1..(Len(p) - 1) :
                    /\ NodeAt(files, SubSeq(p, 1, m)).kind # "dir"
                    /\ \A k \in 1..(m - 1) : NodeAt(files, SubSeq(p, 1, k)).kind = "dir"
         IN  IF NodeAt(files, SubSeq(p, 1, n)).kind = "none" THEN "ENOENT" ELSE "ENOTDIR"
    ELSE IF NodeAt(files, p).kind = "none" THEN "ENOENT"
    ELSE ""

\* accessSync(filePath): returns for a path that exists, throws otherwise
accessSync(files, p) ==
    IF LookupError(files, p) # ""
    THEN Threw(SystemError(LookupError(files, p), "access", p))
    ELSE Returned(Undefined)

\* readFileSync(filePath, 'utf8'): the text of a file
readFileSync(files, p) ==
    IF LookupError(files, p) # ""
    THEN Threw(SystemError(LookupError(files, p), "open", p))
    ELSE IF NodeAt(files, p).kind = "dir"
    THEN Threw([name |-> "Error", code |-> "EISDIR",
                message |-> <<ErrorText("EISDIR"), "read">>])
    ELSE Returned(NodeAt(files, p).content)

\* mkdirSync(directory, { recursive: true }): the directory and the missing ones above it
mkdirSync(files, d) ==
    IF \E n \in 1..Len(d) : NodeAt(files, SubSeq(d, 1, n)).kind = "file"
    THEN [files |-> files,
          result |-> Threw(SystemError(
                IF NodeAt(files, d).kind = "file" THEN "EEXIST" ELSE "ENOTDIR",
                "mkdir", d))]
    ELSE [files |-> [q \in DOMAIN files |->
                        IF \E n \in 1..Len(d) : q = SubSeq(d, 1, n) THEN Dir ELSE files[q]],
          result |-> Returned(Undefined)]

\* a writeFileSync that adds the text to the end of the file
writeFileSyncAppends(files, p, data) ==
    IF data.t # "string"
    THEN [files |-> files, result |-> Threw(InvalidArgType)]
    ELSE IF Len(p) > 1 /\ NodeAt(files, dirname(p)).kind # "dir"
    THEN [files |-> files,
          result |-> Threw(SystemError(LookupError(files, p), "open", p))]
    ELSE IF NodeAt(files, p).kind = "dir"
    THEN [files |-> files, result |-> Threw(SystemError("EISDIR", "open", p))]
    ELSE [files |-> [files EXCEPT ![p] =
                        File((IF @.kind = "file" THEN @.content ELSE <<>>) \o data.s)],
          result |-> Returned(Undefined)]

\* writeFileSync(filePath, jsonString, 'utf8'): creates the file or replaces its text
writeFileSync(files, p, data) ==
    IF data.t # "string"
    THEN [files |-> files, result |-> Threw(InvalidArgType)]
    ELSE IF Len(p) > 1 /\ NodeAt(files, dirname(p)).kind # "dir"
    THEN [files |-> files,
          result |-> Threw(SystemError(LookupError(files, p), "open", p))]
    ELSE IF NodeAt(files, p).kind = "dir"
    THEN [files |-> files, result |-> Threw(SystemError("EISDIR", "open", p))]
    ELSE [files |-> [files EXCEPT ![p] = File(data.s)], result |-> Returned(Undefined)]

----------------------------------------------------------------------------
(* JsonDb: store, load and exists *)

\* the options of store: given names the options the caller passed
Options(given, createDirectory, indent) ==
    [given |-> given, createDirectory |-> createDirectory, indent |-> indent]

\* new Error(message)
Error(message) == [name |-> "Error", code |-> "", message |-> message]

\* a store that creates the directory whatever the options say
storeAlwaysCreates(files, filePath, data, options) ==
    LET indent == IF "indent" \in options.given THEN options.indent ELSE DefaultIndent
        made == mkdirSync(files, dirname(filePath))
        jsonString == JSONstringify(data, indent)
        written == writeFileSync(made.files, filePath, jsonString)
        wrapped(e) ==
            Threw(Error(<<"Failed to store data to ">> \o PathString(filePath)
                        \o <<": ">> \o e.message))
    IN  IF made.result.threw
        THEN [files |-> made.files, result |-> wrapped(made.result.error),
              cause |-> "mkdirSync", original |-> made.result.error]
        ELSE IF written.result.threw
        THEN [files |-> written.files, result |-> wrapped(written.result.error),
              cause |-> "writeFileSync", original |-> written.result.error]
        ELSE [files |-> written.files, result |-> Returned(Undefined),
              cause |-> "", original |-> Error(<<>>)]

\* JsonDb.store; cause is the call that failed and original the error it threw
store(files, filePath, data, options) ==
    LET createDirectory ==
            IF "createDirectory" \in options.given THEN options.createDirectory ELSE TRUE
        indent == IF "indent" \in options.given THEN options.indent ELSE DefaultIndent
        made == IF createDirectory THEN mkdirSync(files, dirname(filePath))
                ELSE [files |-> files, result |-> Returned(Undefined)]
        jsonString == JSONstringify(data, indent)
        written == writeFileSync(made.files, filePath, jsonString)
        wrapped(e) ==
            Threw(Error(<<"Failed to store data to ">> \o PathString(filePath)
                        \o <<": ">> \o e.message))
    IN  IF made.result.threw
        THEN [files |-> made.files, result |-> wrapped(made.result.error),
              cause |-> "mkdirSync", original |-> made.result.error]
        ELSE IF written.result.threw
        THEN [files |-> written.files, result |-> wrapped(written.result.error),
              cause |-> "writeFileSync", original |-> written.result.error]
        ELSE [files |-> written.files, result |-> Returned(Undefined),
              cause |-> "", original |-> Error(<<>>)]

\* a load that hands back the text of the file as it is
loadUnparsed(files, filePath) ==
    LET fileContent == readFileSync(files, filePath)
    IN  IF fileContent.threw
        THEN [result |-> Threw(Error(<<"File not found ">>)),
              cause |-> "readFileSync", original |-> fileContent.error]
        ELSE [result |-> Returned(Str(fileContent.value)),
              cause |-> "", original |-> Error(<<>>)]

\* a load that takes every failure for a missing file
loadAlwaysNotFound(files, filePath) ==
    LET fileContent == readFileSync(files, filePath)
        parsed == JSONparse(fileContent.value)
        caught(e, cause) ==
            [result |-> Threw(Error(<<"File not found ">>)), cause |-> cause, original |-> e]
    IN  IF fileContent.threw THEN caught(fileContent.error, "readFileSync")
        ELSE IF parsed.threw THEN caught(parsed.error, "JSON.parse")
        ELSE [result |-> Returned(parsed.value), cause |-> "", original |-> Error(<<>>)]

\* JsonDb.load
load(files, filePath) ==
    LET fileContent == readFileSync(files, filePath)
        parsed == JSONparse(fileContent.value)
        caught(e, cause) ==
            IF e.code = "ENOENT"
            THEN [result |-> Threw(Error(<<"File not found ">>)),
                  cause |-> cause, original |-> e]
            ELSE [result |-> Threw(Error(<<"Failed to load data from ">>
                                         \o PathString(filePath) \o <<": ">> \o e.message)),
                  cause |-> cause, original |-> e]
    IN  IF fileContent.threw THEN caught(fileContent.error, "readFileSync")
        ELSE IF parsed.threw THEN caught(parsed.error, "JSON.parse")
        ELSE [result |-> Returned(parsed.value), cause |-> "", original |-> Error(<<>>)]

\* an exists with the two answers in each other's place
existsInverted(files, filePath) ==
    IF accessSync(files, filePath).threw THEN Returned(TRUE) ELSE Returned(FALSE)

\* an exists without the catch: the error of accessSync reaches the caller
existsThrows(files, filePath) ==
    IF accessSync(files, filePath).threw
    THEN Threw(accessSync(files, filePath).error)
    ELSE Returned(TRUE)

\* JsonDb.exists
exists(files, filePath) ==
    IF accessSync(files, filePath).threw THEN Returned(FALSE) ELSE Returned(TRUE)

----------------------------------------------------------------------------
(* JsonDb: the values, options and file systems of the calls *)

EmptyObject == Obj(<<>>)
EmptyArray == Arr(<<>>)
NestedObject ==
    Obj([id |-> Num(1),
         tags |-> Arr(<<Str(<<"a">>), Null>>),
         meta |-> Obj([id |-> Bool(TRUE), tags |-> Arr(<<>>)])])
LargeArray == Arr([i \in 1..MaxItems |-> Num(i - 1)])

\* the values that JSON can hold
JsonValues == {EmptyObject, EmptyArray, NestedObject, LargeArray}

DataValues == JsonValues \cup {Undefined}

OptionsGiven ==
    {Options({}, TRUE, DefaultIndent),
     Options({"createDirectory"}, FALSE, DefaultIndent),
     Options({"indent"}, TRUE, 0),
     Options({"createDirectory", "indent"}, FALSE, 4)}

EmptyFs == [p \in FsPaths |-> NoNode]

\* a file that some other program left behind, cut off in the middle of an object
TruncatedText == <<Punct("{"), Lit(Str(<<"id">>)), Punct(":")>>

InitialFileSystems ==
    {EmptyFs,
     [EmptyFs EXCEPT ![<<"data">>] = Dir],
     [EmptyFs EXCEPT ![<<"data">>] = Dir, ![<<"data", "db.json">>] = File(TruncatedText)],
     [EmptyFs EXCEPT ![<<"data">>] = Dir, ![<<"data", "db.json">>] = File(<<>>)]}

NoResult == [op |-> "none"]
NotStored == [stored |-> FALSE]
StoredValue(v) == [stored |-> TRUE, data |-> v]

----------------------------------------------------------------------------
(* AgentService (src/agentService/agent.ts, lines 1-40) *)

\* the AgentRequest a caller passes to sendMessage
AgentRequest(conversationId, sprintId, boardId, sprintName, sprintKey) ==
    Obj([conversationId |-> conversationId, sprintId |-> sprintId, boardId |-> boardId,
         sprintName |-> sprintName, sprintKey |-> sprintKey])

\* axios.get(url, config) issues one GET request
GetRequest(url, config) == [method |-> "GET", url |-> url, config |-> config]

\* the promise of axios.get resolves with a response or rejects with an error
Resolved(data) == [settled |-> "resolved", response |-> [status |-> 200, data |-> data]]
Rejected(error) == [settled |-> "rejected", error |-> error]

\* the errors of axios itself (no connection, a status outside 2xx) and any other error
AxiosError(code) == [name |-> "AxiosError", code |-> code, isAxiosError |-> TRUE]
TypeError == [name |-> "TypeError", code |-> "ERR_INVALID_URL", isAxiosError |-> FALSE]

NotSetMessage == <<"AgentURL environment variable is not set.">>

\* a notifier that asks the agent once more before it gives up
sendMessageRetries(baseUrl, data, outcome) ==
    IF ~Truthy(baseUrl)
    THEN [requests |-> <<>>, result |-> Threw(Error(NotSetMessage))]
    ELSE LET url == TemplateString(baseUrl) \o <<"/message">>
             request == GetRequest(url, [data |-> data])
         IN  IF outcome.settled = "resolved"
             THEN [requests |-> <<request>>, result |-> Returned(outcome.response.data)]
             ELSE [requests |-> <<request, request>>, result |-> Threw(outcome.error)]

\* AgentService.sendMessage(data); outcome is how the promise of axios.get settles
sendMessage(baseUrl, data, outcome) ==
    IF ~Truthy(baseUrl)
    THEN [requests |-> <<>>, result |-> Threw(Error(NotSetMessage))]
    ELSE LET url == TemplateString(baseUrl) \o <<"/message">>
             request == GetRequest(url, [data |-> data])
         IN  IF outcome.settled = "resolved"
             THEN [requests |-> <<request>>, result |-> Returned(outcome.response.data)]
             ELSE [requests |-> <<request>>, result |-> Threw(outcome.error)]

\* the values of process.env.AgentURL: not set, set to nothing, set to an address
AgentURLs ==
    {Undefined, Str(<<>>), Str(<<"http://localhost:5000">>),
     Str(<<"https://agent.example.com/api">>)}

AgentRequests ==
    {AgentRequest(Str(<<c>>), Str(<<"S","P","R","I","N","T","-","1","2","3">>), b, n,
                  Str(<<"T","S">>)) :
        c \in ConversationIds,
        b \in {Str(<<>>), Str(<<"B","O","A","R","D","-","4","5","6">>)},
        n \in {Str(<<>>), Str(<<"T","e","s","t"," ","S","p","r","i","n","t">>)}}

Outcomes ==
    {Resolved(d) : d \in {Str(<<>>), Str(<<"o","k">>), Obj([id |-> Num(1)])}}
    \cup {Rejected(e) : e \in {AxiosError("ECONNREFUSED"), AxiosError("ERR_BAD_RESPONSE"),
                                TypeError}}

----------------------------------------------------------------------------
(* The turns *)

BotInit ==
    /\ pc = "idle"
    /\ activity = NoActivity
    /\ outbox = <<>>
    /\ calls = <<>>
    /\ httpRequests = <<>>
    /\ turnStatus = "none"
    /\ dialogStack = [c \in ConversationIds |-> <<>>]
    /\ conversationReferences = <<>>
    /\ seen = [c \in ConversationIds |-> NotSeen]
    /\ shown = [c \in ConversationIds |-> {}]

\* no AgentService call is under way
AgentIdle ==
    /\ agentRequests = <<>>
    /\ agentResult = NoResult

Init ==
    /\ BotInit
    /\ fs = EmptyFs
    /\ dbResult = NoResult
    /\ lastStored = [p \in DbPaths |-> NotStored]
    /\ AgentURL = Undefined
    /\ AgentIdle

\* the adapter receives an activity and creates the turn context; ActivityHandler
\* dispatches on activity.type
Receive(a) ==
    /\ pc = "idle"
    /\ pc' = IF a.type = "message" THEN "onMessage" ELSE "onConversationUpdate"
    /\ activity' = a
    /\ seen' = [seen EXCEPT ![a.conversation] = a.id]
    /\ UNCHANGED <<outbox, calls, httpRequests, turnStatus, dialogStack,
                   conversationReferences, shown>>
    /\ UNCHANGED dbVars
    /\ UNCHANGED agentVars

\* the onMessage handler, followed by the onDialog handler that saves the dialog state
OnMessage ==
    /\ pc = "onMessage"
    /\ LET c == Enter(NewContext(activity), "addConversationReference")
           r == run(c, dialogStack[activity.conversation])
           saved == Enter(r.ctx, "saveChanges")
       IN  /\ conversationReferences' =
                 addConversationReference(conversationReferences, activity)
           /\ outbox' = saved.sent
           /\ calls' = saved.calls
           /\ httpRequests' = saved.requests
           /\ turnStatus' = r.status
           /\ dialogStack' = [dialogStack EXCEPT ![activity.conversation] = r.stack]
    /\ pc' = "done"
    /\ UNCHANGED <<activity, seen, shown>>
    /\ UNCHANGED dbVars
    /\ UNCHANGED agentVars

\* the onConversationUpdate handler, followed by the onDialog handler
OnConversationUpdate ==
    /\ pc = "onConversationUpdate"
    /\ LET c == Enter(NewContext(activity), "addConversationReference")
           saved == Enter(c, "saveChanges")
       IN  /\ conversationReferences' =
                 addConversationReference(conversationReferences, activity)
           /\ outbox' = saved.sent
           /\ calls' = saved.calls
           /\ httpRequests' = saved.requests
    /\ pc' = "updated"
    /\ UNCHANGED <<activity, turnStatus, dialogStack, seen, shown>>
    /\ UNCHANGED dbVars
    /\ UNCHANGED agentVars

\* the end of a turn, but for what becomes of the cards in the chat
TurnEnds ==
    /\ pc \in {"done", "updated"}
    /\ pc' = "idle"
    /\ activity' = NoActivity
    /\ outbox' = <<>>
    /\ calls' = <<>>
    /\ httpRequests' = <<>>
    /\ turnStatus' = "none"
    /\ UNCHANGED <<dialogStack, conversationReferences, seen>>
    /\ UNCHANGED dbVars
    /\ UNCHANGED agentVars

\* the adapter completes the request; the turn context is gone
EndTurn ==
    /\ TurnEnds
    /\ UNCHANGED shown

Next ==
    \/ \E a \in MessageActivities \cup ConversationUpdates : Receive(a)
    \/ OnMessage
    \/ OnConversationUpdate
    \/ EndTurn

Spec == Init /\ [][Next]_vars

----------------------------------------------------------------------------
(* The turns of a chat that keeps the cards it was sent *)

\* the cards attached to the activities of a turn
CardsIn(sent) == UNION {{sent[i].attachments[j] : j \in DOMAIN sent[i].attachments} :
                            i \in DOMAIN sent}

\* the adapter completes the request; the cards of the turn now stand in the chat
Deliver ==
    /\ TurnEnds
    /\ shown' = [shown EXCEPT ![activity.conversation] = @ \cup CardsIn(outbox)]

ClientNext ==
    \/ \E a \in ClientActivities : Receive(a)
    \/ OnMessage
    \/ Deliver

ClientSpec == Init /\ [][ClientNext]_vars

----------------------------------------------------------------------------
(* The calls of JsonDb *)

DbInit ==
    /\ BotInit
    /\ fs \in InitialFileSystems
    /\ dbResult = NoResult
    /\ lastStored = [p \in DbPaths |-> NotStored]
    /\ AgentURL = Undefined
    /\ AgentIdle

\* JsonDb.store(filePath, data, options)
Store(filePath, data, options) ==
    /\ dbResult = NoResult
    /\ LET r == store(fs, filePath, data, options)
       IN  /\ fs' = r.files
           /\ dbResult' = [op |-> "store", path |-> filePath, data |-> data,
                           options |-> options, result |-> r.result,
                           cause |-> r.cause, original |-> r.original,
                           before |-> [parent |-> NodeAt(fs, dirname(filePath)).kind,
                                       target |-> NodeAt(fs, filePath).kind]]
           /\ lastStored' = IF r.result.threw THEN lastStored
                            ELSE [lastStored EXCEPT ![filePath] = StoredValue(data)]
    /\ UNCHANGED botVars
    /\ UNCHANGED agentVars

\* JsonDb.load(filePath)
Load(filePath) ==
    /\ dbResult = NoResult
    /\ LET r == load(fs, filePath)
       IN  dbResult' = [op |-> "load", path |-> filePath, result |-> r.result,
                        cause |-> r.cause, original |-> r.original]
    /\ UNCHANGED <<fs, lastStored>>
    /\ UNCHANGED botVars
    /\ UNCHANGED agentVars

\* JsonDb.exists(filePath)
Exists(filePath) ==
    /\ dbResult = NoResult
    /\ dbResult' = [op |-> "exists", path |-> filePath, result |-> exists(fs, filePath)]
    /\ UNCHANGED <<fs, lastStored>>
    /\ UNCHANGED botVars
    /\ UNCHANGED agentVars

\* the caller has taken what the call gave back
Return ==
    /\ dbResult # NoResult
    /\ dbResult' = NoResult
    /\ UNCHANGED <<fs, lastStored>>
    /\ UNCHANGED botVars
    /\ UNCHANGED agentVars

DbNext ==
    \/ \E p \in DbPaths, v \in DataValues, o \in OptionsGiven : Store(p, v, o)
    \/ \E p \in DbPaths : Load(p)
    \/ \E p \in DbPaths : Exists(p)
    \/ Return

DbSpec == DbInit /\ [][DbNext]_vars

----------------------------------------------------------------------------
(* The calls of AgentService *)

AgentInit ==
    /\ BotInit
    /\ fs = EmptyFs
    /\ dbResult = NoResult
    /\ lastStored = [p \in DbPaths |-> NotStored]
    /\ AgentURL \in AgentURLs
    /\ AgentIdle

\* AgentService.sendMessage(data), with the way the request turns out
SendMessage(data, outcome) ==
    /\ agentResult = NoResult
    /\ LET r == sendMessage(AgentURL, data, outcome)
       IN  /\ agentRequests' = r.requests
           /\ agentResult' = [op |-> "sendMessage", data |-> data, outcome |-> outcome,
                              result |-> r.result]
    /\ UNCHANGED AgentURL
    /\ UNCHANGED botVars
    /\ UNCHANGED dbVars

\* the caller has taken what sendMessage gave back
AgentReturn ==
    /\ agentResult # NoResult
    /\ agentRequests' = <<>>
    /\ agentResult' = NoResult
    /\ UNCHANGED AgentURL
    /\ UNCHANGED botVars
    /\ UNCHANGED dbVars

AgentNext ==
    \/ \E d \in AgentRequests, o \in Outcomes : SendMessage(d, o)
    \/ AgentReturn

AgentSpec == AgentInit /\ [][AgentNext]_vars

----------------------------------------------------------------------------
(* Properties of a processed turn *)

Done == pc = "done"

HasPayload == activity.value.t = "object"
NoPayload == activity.value \in {Undefined, Null}

Field(name) == activity.value.f[name]

Ran(name) == \E i \in DOMAIN calls : calls[i] = name

SpaceChars == {" ", "\t", "\n", "\r", "\f"}

\* t is the word w in some letter case, with only whitespace before and after it
TypesAs(t, w) ==
    \E i \in 0..(Len(t) - Len(w)) :
        /\ \A k \in 1..i : t[k] \in SpaceChars
        /\ \A k \in 1..Len(w) : t[i + k] \in {w[k], UpperChar(w[k])}
        /\ \A k \in (i + Len(w) + 1)..Len(t) : t[k] \in SpaceChars

IsCommandText(v) ==
    /\ v.t = "string"
    /\ \E w \in {help, configure, prompt, cancel} : TypesAs(v.s, w)

\* a string of whitespace only
IsBlank(v) == v.t = "string" /\ Len(v.s) > 0 /\ \A k \in 1..Len(v.s) : v.s[k] \in SpaceChars

\* a string with a character that is no whitespace
IsFilled(v) == v.t = "string" /\ \E k \in 1..Len(v.s) : v.s[k] \notin SpaceChars

IsMissing(v) == v \in {Undefined, Null, Str(<<>>)}

IsJiraSubmission == HasPayload /\ Field("type") = Str(jiraInformation)
IsCancelSubmission == HasPayload /\ Field("type") = Str(cancelNotification)
IsPromptSubmission == HasPayload /\ Field("type") = Str(prompt)

TextBranches ==
    {"sendCommandList", "sendJiraInformationCard", "sendPromptToAgentCard",
     "sendCancelNotificationCard"}
SubmissionHandlers ==
    {"handleJiraInformationSubmission", "handlePromptSubmission",
     "handleCancelNotificationSubmission"}

\* C1: on a turn without payload, a text that is 'configure', 'prompt', 'cancel' or
\* 'help' up to letter case and surrounding whitespace yields the Jira card, the
\* prompt card, the cancel card and the help text respectively.
C1_CommandDispatch ==
    (Done /\ NoPayload /\ activity.text.t = "string") =>
        /\ TypesAs(activity.text.s, configure) =>
                outbox = <<CardActivity(JiraInformationCard)>>
        /\ TypesAs(activity.text.s, prompt) =>
                outbox = <<CardActivity(PromptToAgentCard)>>
        /\ TypesAs(activity.text.s, cancel) =>
                outbox = <<CardActivity(CancelNotificationCard)>>
        /\ TypesAs(activity.text.s, help) =>
                outbox = <<TextActivity(helpMessage)>>

C1_Witness ==
    /\ Done
    /\ NoPayload
    /\ activity.text = Str(<<"\t">> \o Cased(cancel, 1..Len(cancel)) \o <<" ">>)
    /\ outbox = <<CardActivity(CancelNotificationCard)>>

\* C2: on a turn without payload, a text that is absent, null, empty, blank or no
\* command after trim and lower-casing yields the help message and no card.
C2_UnmatchedTextGetsHelp ==
    (Done /\ NoPayload /\ ~IsCommandText(activity.text)) =>
        /\ outbox = <<TextActivity(helpMessage)>>
        /\ \A i \in DOMAIN outbox : outbox[i].attachments = <<>>

C2_Witness ==
    /\ Done
    /\ NoPayload
    /\ activity.text = Str(configure \o <<" ","n","o","w">>)
    /\ outbox = <<TextActivity(helpMessage)>>

\* C3: a turn is handled either as a card submission or as a text command, never
\* as both; with a payload present the payload is dispatched by its type and no
\* text command branch runs, whatever the text is.
C3_PayloadTakesPrecedence ==
    Done =>
        /\ HasPayload =>
            /\ Ran("handleCardSubmission")
            /\ \A b \in TextBranches : ~Ran(b)
            /\ IsJiraSubmission => Ran("handleJiraInformationSubmission")
            /\ IsPromptSubmission => Ran("handlePromptSubmission")
            /\ IsCancelSubmission => Ran("handleCancelNotificationSubmission")
            /\ \A i \in DOMAIN outbox :
                    outbox[i].attachments = <<>> /\ outbox[i] # TextActivity(helpMessage)
        /\ (\E b \in TextBranches : Ran(b)) =>
            /\ NoPayload
            /\ ~Ran("handleCardSubmission")

C3_Witness ==
    /\ Done
    /\ IsCancelSubmission
    /\ Field("choice") = Str(yes)
    /\ activity.text = Str(configure)
    /\ Ran("handleCancelNotificationSubmission")

\* C4: a jiraInformation submission whose sprintId or boardId is absent, null or
\* empty gets the required-fields error and not the success message, whatever
\* the other fields hold.
C4_MissingRequiredField ==
    (Done /\ IsJiraSubmission /\ (IsMissing(Field("sprintId")) \/ IsMissing(Field("boardId")))) =>
        outbox = <<TextActivity(RequiredFieldsError)>>

C4_Witness ==
    /\ Done
    /\ IsJiraSubmission
    /\ IsFilled(Field("sprintId"))
    /\ Field("boardId") = Undefined
    /\ Field("sprintName") # Undefined
    /\ outbox = <<TextActivity(RequiredFieldsError)>>

\* C5: a jiraInformation submission whose sprintId or boardId is whitespace only
\* gets the required-fields error, even when the other field is valid.
C5_BlankCountsAsMissing ==
    (Done /\ IsJiraSubmission /\ (IsBlank(Field("sprintId")) \/ IsBlank(Field("boardId")))) =>
        outbox = <<TextActivity(RequiredFieldsError)>>

\* C6: a jiraInformation submission whose sprintId and boardId are both filled
\* gets the success message with the sprintId and the boardId as given, the same
\* with or without sprintName and sprintKey.
C6_ValidSubmissionSucceeds ==
    (Done /\ IsJiraSubmission /\ IsFilled(Field("sprintId")) /\ IsFilled(Field("boardId"))) =>
        outbox = <<TextActivity(
            <<":check:", " **Notification Created Successfully!**\n\n", "**Sprint ID:** ">>
            \o Field("sprintId").s \o <<"\n", "**Board ID:** ">>
            \o Field("boardId").s \o <<"\n">>)>>

C6_Witness ==
    /\ Done
    /\ IsJiraSubmission
    /\ IsFilled(Field("sprintId"))
    /\ IsFilled(Field("boardId"))
    /\ Field("sprintName") = Undefined
    /\ Field("sprintKey") # Undefined
    /\ Len(outbox) = 1

\* C7: a cancelNotification submission with choice 'yes' gets the cancelled
\* message and with choice 'no' the not-cancelled message, never the other one.
C7_CancelChoice ==
    (Done /\ IsCancelSubmission) =>
        /\ Field("choice") = Str(yes) => outbox = <<TextActivity(CancelConfirmed)>>
        /\ Field("choice") = Str(no) => outbox = <<TextActivity(NotCancelled)>>
        /\ CancelConfirmed # NotCancelled

C7_Witness ==
    /\ Done
    /\ IsCancelSubmission
    /\ Field("choice") = Str(no)
    /\ outbox = <<TextActivity(NotCancelled)>>

\* C8: a submission whose type is none of 'jiraInformation', 'prompt' and
\* 'cancelNotification', or has no type, gets exactly 'Thank you for your
\* submission!' and none of the three handlers runs.
C8_UnknownTypeAcknowledged ==
    (Done /\ HasPayload
          /\ Field("type") \notin {Str(jiraInformation), Str(prompt), Str(cancelNotification)}) =>
        /\ outbox = <<TextActivity(<<"Thank you for your submission!">>)>>
        /\ \A h \in SubmissionHandlers : ~Ran(h)

C8_Witness ==
    /\ Done
    /\ HasPayload
    /\ Field("type") = Undefined
    /\ outbox = <<TextActivity(ThankYou)>>

\* C9: a prompt submission gets the same fixed acknowledgement whatever its
\* prompt field holds, and handling it issues no request to the agent.
C9_PromptAcknowledged ==
    (Done /\ IsPromptSubmission) =>
        /\ outbox = <<TextActivity(PromptSent)>>
        /\ httpRequests = <<>>
        /\ ~Ran("AgentService.sendMessage")

C9_Witness ==
    /\ Done
    /\ IsPromptSubmission
    /\ Field("prompt") = Undefined
    /\ outbox = <<TextActivity(PromptSent)>>

\* C10: every turn ends the dialog in that same turn: the turn status is
\* 'complete' after every input and no dialog is left waiting on the stack.
C10_SingleStepTurn ==
    /\ Done => turnStatus = "complete"
    /\ \A c \in ConversationIds : dialogStack[c] = <<>>

C10_Witness ==
    /\ Done
    /\ IsJiraSubmission
    /\ Field("sprintId") = Null
    /\ turnStatus = "complete"
    /\ dialogStack[activity.conversation] = <<>>

\* an outgoing activity a user gets to see: a card or a text that is not empty
IsUserFacing(a) ==
    \/ a.attachments # <<>>
    \/ a.text.t = "string" /\ a.text.s # <<>>

\* C11: every turn input, recognized or not, valid or not, gets a user-facing
\* message and the turn completes without a failure; a missing required field
\* is answered with the required-fields message.
C11_EveryInputGetsMessage ==
    Done =>
        /\ turnStatus = "complete"
        /\ Len(outbox) = 1
        /\ IsUserFacing(outbox[1])
        /\ (IsJiraSubmission /\ (IsMissing(Field("sprintId")) \/ IsMissing(Field("boardId")))) =>
                outbox = <<TextActivity(RequiredFieldsError)>>

\* C22: a cancelNotification submission whose choice is neither 'yes' nor 'no'
\* (or is absent) is answered with one message whose text is empty: not the
\* cancelled text, not the not-cancelled text, not the generic acknowledgement.
C22_OtherChoiceGetsEmptyMessage ==
    (Done /\ IsCancelSubmission /\ Field("choice") \notin {Str(yes), Str(no)}) =>
        /\ Len(outbox) = 1
        /\ outbox[1].text = Str(<<>>)
        /\ outbox[1].attachments = <<>>
        /\ Str(<<>>) \notin {Str(CancelConfirmed), Str(NotCancelled), Str(ThankYou)}
        /\ Ran("handleCancelNotificationSubmission")

C22_Witness ==
    /\ Done
    /\ IsCancelSubmission
    /\ Field("choice") = Str(<<"m","a","y","b","e">>)
    /\ outbox = <<TextActivity(<<>>)>>

\* the methods of the JSON store and of the agent notifier
ExternalCalls ==
    {"JsonDb.store", "JsonDb.load", "JsonDb.exists", "AgentService.sendMessage"}

\* C24: a turn sends exactly one outgoing activity, whichever branch it takes,
\* and touches nothing else: it issues no HTTP request, calls neither the JSON
\* store nor the agent notifier, and leaves the files as they are.
C24_OneMessageNoSideEffect ==
    /\ [](Done => /\ Len(outbox) = 1
                  /\ httpRequests = <<>>
                  /\ \A e \in ExternalCalls : ~Ran(e))
    /\ [][fs' = fs /\ agentRequests' = agentRequests]_vars

C24_Witness ==
    /\ Done
    /\ IsJiraSubmission
    /\ IsMissing(Field("boardId"))
    /\ outbox = <<TextActivity(RequiredFieldsError)>>
    /\ httpRequests = <<>>
    /\ fs = EmptyFs

\* the command, the type of the submit action of its card, and the handler of that type
CardBindings ==
    {<<configure, jiraInformation, "handleJiraInformationSubmission">>,
     <<prompt, prompt, "handlePromptSubmission">>,
     <<cancel, cancelNotification, "handleCancelNotificationSubmission">>}

\* C23: the card sent for 'configure', 'prompt' and 'cancel' has exactly one
\* submit action, whose data carries the type 'jiraInformation', 'prompt' and
\* 'cancelNotification' respectively; a submission built from a card that was
\* sent to the conversation is handled by the handler of that type and never
\* gets the generic acknowledgement; the cancel card offers exactly 'yes' and
\* 'no', and each of them gets one of the two answers of the cancel handler.
C23_CardBindsHandler ==
    Done =>
        /\ \A b \in CardBindings :
              (NoPayload /\ activity.text = Str(b[1])) =>
                  /\ Len(outbox) = 1
                  /\ Len(outbox[1].attachments) = 1
                  /\ Len(outbox[1].attachments[1].actions) = 1
                  /\ outbox[1].attachments[1].actions[1].type = "Action.Submit"
                  /\ outbox[1].attachments[1].actions[1].data = [type |-> b[2]]
        /\ \A card \in shown[activity.conversation] :
              activity.value \in SubmissionsOf(card) =>
                  /\ \E b \in CardBindings :
                        /\ card.actions[1].data.type = b[2]
                        /\ Ran(b[3])
                        /\ \A h \in SubmissionHandlers \ {b[3]} : ~Ran(h)
                  /\ outbox # <<TextActivity(ThankYou)>>
        /\ \A card \in shown[activity.conversation] :
              card.actions[1].data.type = cancelNotification =>
                  /\ Len(card.inputs) = 1
                  /\ card.inputs[1].id = "choice"
                  /\ card.inputs[1].choices = <<yes, no>>
                  /\ (activity.value \in SubmissionsOf(card)
                        /\ Field("choice") \in {Str(yes), Str(no)}) =>
                         outbox \in {<<TextActivity(CancelConfirmed)>>,
                                     <<TextActivity(NotCancelled)>>}

\* the cancel card was sent to the conversation in an earlier turn, and this turn
\* handles its submission with the choice 'yes'
C23_Witness ==
    /\ Done
    /\ \E card \in shown[activity.conversation] :
          /\ card.title = "Cancel Jira Notification"
          /\ activity.value \in SubmissionsOf(card)
    /\ Field("choice") = Str(yes)
    /\ Ran("handleCancelNotificationSubmission")
    /\ outbox = <<TextActivity(CancelConfirmed)>>

\* the outgoing activities of the first turn of a conversation with this input
FirstReply(text, value) ==
    run(NewContext(Activity("act0", "conv0", text, value)), <<>>).ctx.sent

\* C25: the outgoing message of a turn depends on the text and the payload of
\* the turn only: after any earlier turns it is the message that the first
\* turn of a conversation gets for the same input, so a submission is handled
\* alike whether or not its card was sent before.
C25_ReplyDependsOnInputOnly ==
    Done => outbox = FirstReply(activity.text, activity.value)

\* a cancel submission in a conversation that was sent the Jira card earlier,
\* and never the cancel card
C25_Witness ==
    /\ Done
    /\ IsCancelSubmission
    /\ Field("choice") = Str(no)
    /\ shown[activity.conversation] = {JiraInformationCard}
    /\ outbox = <<TextActivity(NotCancelled)>>

\* how often the turn entered the method
Count(name) == Cardinality({i \in DOMAIN calls : calls[i] = name})

\* C26: the persisted dialog stack of every conversation is empty before and
\* after every turn; on every turn continueDialog reports 'empty', run begins
\* the dialog with beginDialog, and the waterfall step runs exactly once.
C26_StackEmptyBetweenTurns ==
    /\ \A c \in ConversationIds : dialogStack[c] = <<>>
    /\ pc = "onMessage" =>
          continueDialog(NewContext(activity), dialogStack[activity.conversation]).status
              = "empty"
    /\ Done =>
          /\ Count("continueDialog") = 1
          /\ Count("beginDialog") = 1
          /\ Count("processUserInputStep") = 1
          /\ \E i, j, k \in DOMAIN calls :
                /\ i < j /\ j < k
                /\ calls[i] = "continueDialog"
                /\ calls[j] = "beginDialog"
                /\ calls[k] = "processUserInputStep"

\* the second turn of a conversation, begun afresh like the first
C26_Witness ==
    /\ Done
    /\ seen[activity.conversation] = "act2"
    /\ "conv1" \in DOMAIN conversationReferences
    /\ "conv2" \in DOMAIN conversationReferences
    /\ NoPayload /\ activity.text = Str(configure)
    /\ Count("beginDialog") = 1
    /\ dialogStack[activity.conversation] = <<>>

\* the registry as the activities handed to the bot so far determine it
ExpectedReferences(conversations) ==
    [c \in {d \in conversations : seen[d] # NotSeen} |->
        [activityId |-> seen[c], conversation |-> c]]

\* the entries of the registry for the given conversations
Entries(conversations) ==
    [c \in DOMAIN conversationReferences \cap conversations |-> conversationReferences[c]]

\* C27: every message and every conversation update records the reference of
\* its activity under its conversation id, for a message before the dialog
\* runs; no entry is ever removed; once an activity is handled the registry
\* has exactly one entry for each conversation that sent a message or a
\* conversation update so far, the reference of its most recent activity.
C27_RegistryHoldsLatestReference ==
    /\ [](/\ pc \in {"idle", "done", "updated"} =>
                Entries(ConversationIds) = ExpectedReferences(ConversationIds)
          /\ pc \in {"onMessage", "onConversationUpdate"} =>
                Entries(ConversationIds \ {activity.conversation})
                    = ExpectedReferences(ConversationIds \ {activity.conversation})
          /\ DOMAIN conversationReferences \subseteq ConversationIds
          /\ Done =>
                /\ calls[1] = "addConversationReference"
                /\ calls[2] = "run"
          /\ pc = "updated" => calls[1] = "addConversationReference")
    /\ [][DOMAIN conversationReferences \subseteq DOMAIN conversationReferences']_vars

\* a conversation update has replaced the reference of its conversation, next
\* to the entry of the other conversation
C27_Witness ==
    /\ pc = "updated"
    /\ activity.id = "act2"
    /\ DOMAIN conversationReferences = ConversationIds
    /\ conversationReferences[activity.conversation] =
            [activityId |-> "act2", conversation |-> activity.conversation]
    /\ \E c \in ConversationIds \ {activity.conversation} :
            conversationReferences[c].activityId = "act1"

----------------------------------------------------------------------------
(* Properties of the calls of JsonDb *)

Called(op) == dbResult.op = op

Failed == dbResult.op \in {"store", "load"} /\ dbResult.result.threw
Succeeded == dbResult.op \in {"store", "load"} /\ ~dbResult.result.threw

\* nothing is at the path, and no regular file is on the way to it
Missing(files, p) == \A n \in 1..Len(p) : files[SubSeq(p, 1, n)].kind # "file" /\ files[p] = NoNode

\* the sequence needle occurs in the sequence hay
Contains(hay, needle) ==
    \E i \in 0..(Len(hay) - Len(needle)) : SubSeq(hay, i + 1, i + Len(needle)) = needle

IsFileNotFound(r) == r.threw /\ r.error.message # <<>> /\ Head(r.error.message) = "File not found "
IsLoadFailure(r) ==
    r.threw /\ r.error.message # <<>> /\ Head(r.error.message) = "Failed to load data from "

\* C12: after a store of a JSON value that succeeded, also one that had to
\* create the parent directory, load of the same path returns an equal value.
C12_RoundTrip ==
    (Called("store") /\ Succeeded /\ dbResult.data \in JsonValues) =>
        load(fs, dbResult.path).result = Returned(dbResult.data)

C12_Witness ==
    /\ Called("store")
    /\ Succeeded
    /\ dbResult.path = <<"app", "store", "users.json">>
    /\ dbResult.before.parent = "none"
    /\ "createDirectory" \notin dbResult.options.given
    /\ dbResult.data = NestedObject
    /\ load(fs, dbResult.path).result = Returned(NestedObject)

C14_NotFoundNamesPath ==
    (Called("load") /\ Missing(fs, dbResult.path)) =>
        /\ dbResult.result.threw
        /\ Contains(dbResult.result.error.message,
                    <<"File not found ">> \o PathString(dbResult.path))

\* C15: exists is false for a path at which nothing exists, true right after a
\* store to it succeeded, and stays true for every path a store succeeded on.
C15_ExistsAfterStore ==
    /\ (Called("exists") /\ fs[dbResult.path] = NoNode) => dbResult.result = Returned(FALSE)
    /\ (Called("store") /\ Succeeded) => exists(fs, dbResult.path) = Returned(TRUE)
    /\ \A p \in DbPaths : lastStored[p] # NotStored => exists(fs, p) = Returned(TRUE)

C15_Witness ==
    /\ Called("exists")
    /\ lastStored[dbResult.path] # NotStored
    /\ \E q \in DbPaths \ {dbResult.path} : lastStored[q] # NotStored
    /\ dbResult.result = Returned(TRUE)

\* C16: a store with createDirectory false on a path whose parent directory does
\* not exist fails, creates neither directory nor file, and exists stays false.
C16_NoDirectoryNoStore ==
    [][(/\ dbResult = NoResult
        /\ dbResult'.op = "store"
        /\ "createDirectory" \in dbResult'.options.given
        /\ ~dbResult'.options.createDirectory
        /\ NodeAt(fs, dirname(dbResult'.path)) = NoNode)
       => (/\ dbResult'.result.threw
           /\ fs' = fs
           /\ NodeAt(fs', dirname(dbResult'.path)) = NoNode
           /\ exists(fs', dbResult'.path) = Returned(FALSE))]_vars

C16_Witness ==
    /\ Called("store")
    /\ "createDirectory" \in dbResult.options.given
    /\ ~dbResult.options.createDirectory
    /\ dbResult.before.parent = "none"
    /\ dbResult.data \in JsonValues
    /\ dbResult.result.threw
    /\ NodeAt(fs, dirname(dbResult.path)) = NoNode
    /\ fs[dbResult.path] = NoNode

\* C17: exists never throws: it returns true exactly when something is at the
\* path, false on every failure of the access, and leaves the files as they are.
C17_ExistsNeverThrows ==
    [][(dbResult = NoResult /\ dbResult'.op = "exists")
       => (/\ fs' = fs
           /\ ~dbResult'.result.threw
           /\ dbResult'.result.value = (fs[dbResult'.path] # NoNode))]_vars

C17_Witness ==
    /\ Called("exists")
    /\ dbResult.path = <<"data", "db.json", "x.json">>
    /\ fs[<<"data", "db.json">>].kind = "file"
    /\ dbResult.result = Returned(FALSE)

\* C18: a store replaces what was at its path and touches no other path: load
\* of a path returns the value of the last store to it that succeeded.
C18_LastStoreWins ==
    \A p \in DbPaths :
        lastStored[p] # NotStored => load(fs, p).result = Returned(lastStored[p].data)

C18_Witness ==
    /\ Called("store")
    /\ Succeeded
    /\ dbResult.before.target = "file"
    /\ \E q \in DbPaths \ {dbResult.path} :
            /\ lastStored[q] # NotStored
            /\ lastStored[q].data # dbResult.data
    /\ load(fs, dbResult.path).result = Returned(dbResult.data)

\* C19: a store that fails to create the parent directory is reported with an
\* error of its own, apart from the error of a failed serialization or write,
\* and file-not-found comes from load only.
C19_DirectoryFailureIsDistinct ==
    (Called("store") /\ Failed) =>
        /\ Head(dbResult.result.error.message) # "File not found "
        /\ dbResult.cause = "mkdirSync" =>
                Head(dbResult.result.error.message) # "Failed to store data to "

\* C20: every failure of store and of load, file-not-found too, gives the caller
\* an error whose message holds the message of the underlying error.
C20_FailureCarriesOriginal ==
    Failed => Contains(dbResult.result.error.message, dbResult.original.message)

----------------------------------------------------------------------------
(* AgentService *)

NotConfigured == AgentURL \in {Undefined, Str(<<>>)}

\* C21: sendMessage fails with an error and issues no HTTP request when AgentURL
\* is not set (or is empty); when it is set, the call issues exactly one GET
\* request to '<AgentURL>/message', returns the data of the response when the
\* request succeeds and throws the very error of the request when it fails
C21_SendMessageContract ==
    agentResult # NoResult =>
        IF NotConfigured
        THEN /\ agentResult.result.threw
             /\ agentResult.result.error.name = "Error"
             /\ agentRequests = <<>>
        ELSE /\ Len(agentRequests) = 1
             /\ agentRequests[1].method = "GET"
             /\ agentRequests[1].url = AgentURL.s \o <<"/message">>
             /\ agentResult.outcome.settled = "resolved" =>
                    agentResult.result = Returned(agentResult.outcome.response.data)
             /\ agentResult.outcome.settled = "rejected" =>
                    agentResult.result = Threw(agentResult.outcome.error)

\* a configured notifier whose one request was refused
C21_Witness ==
    /\ agentResult # NoResult
    /\ ~NotConfigured
    /\ agentResult.outcome = Rejected(AxiosError("ECONNREFUSED"))
    /\ agentResult.result.threw
    /\ Len(agentRequests) = 1

====
